---- MODULE Spec2Model ----
(***************************************************************************)
(* Layer-by-layer DNS exploration (dns_explorer.py) and the graph built    *)
(* from it (dns_graph.py).                                                 *)
(*                                                                         *)
(* A Python str is a sequence of one-character strings, so that split,     *)
(* join, strip and the regular expressions of the source are computed on   *)
(* characters.  A Python set is a TLA+ set, a list a sequence, a dict its   *)
(* keys in insertion order with the value of each key.                     *)
(***************************************************************************)
EXTENDS Integers, Sequences, FiniteSets, TLC

(***************************************************************************)
(* Bounds of the model.                                                    *)
(***************************************************************************)
\* largest layer count given on the command line or at the prompt
MaxLayersArg == 4
\* longest string of the enumerated inputs of get_parent_domain
MaxLen == 5

(***************************************************************************)
(* Characters and strings.                                                 *)
(***************************************************************************)
\* the characters the model uses, in increasing code point order
CodePoints ==
  << "\t", " ", "\"", "-", ".", "/", "0", "1", "2", "3", "4", "5", "6", "7", "8",
     "9", ":", "=", "_", "a", "b", "c", "d", "e", "f", "g", "h", "i", "j",
     "k", "l", "m", "n", "o", "p", "q", "r", "s", "t", "u", "v", "w", "x",
     "y", "z" >>

\* ord(c), up to an order-preserving renumbering
Ord(c) == CHOOSE i \in 1..Len(CodePoints) : CodePoints[i] = c

\* the characters str.split() and the regex class \s treat as whitespace
Whitespace == {"\t", " "}

\* Python None; not a str, since "None" is not a single character
None == << "None" >>

\* truth value of an optional str: None and "" are false
Truthy(x) == x # None /\ x # << >>

\* s[i:] for a 1-based i
DropTo(s, i) == SubSeq(s, i, Len(s))

\* s.startswith(p)
StartsWith(s, p) == Len(s) >= Len(p) /\ SubSeq(s, 1, Len(p)) = p

\* p in s
Contains(s, p) == \E i \in 1..(Len(s) + 1) : StartsWith(DropTo(s, i), p)

\* a < b for two str (lexicographic on code points)
RECURSIVE StrLess(_, _)
StrLess(a, b) ==
  IF b = << >> THEN FALSE
  ELSE IF a = << >> THEN TRUE
  ELSE IF a[1] # b[1] THEN Ord(a[1]) < Ord(b[1])
  ELSE StrLess(Tail(a), Tail(b))

\* sorted(S) for a set of str
RECURSIVE Sorted(_)
Sorted(S) ==
  IF S = {} THEN << >>
  ELSE LET m == CHOOSE x \in S : \A y \in S \ {x} : StrLess(x, y)
       IN  << m >> \o Sorted(S \ {m})

\* s.split(sep) for a one-character sep
RECURSIVE Split(_, _)
Split(s, sep) ==
  IF \A i \in 1..Len(s) : s[i] # sep THEN << s >>
  ELSE LET i == CHOOSE k \in 1..Len(s) :
                  s[k] = sep /\ \A j \in 1..(k - 1) : s[j] # sep
       IN  << SubSeq(s, 1, i - 1) >> \o Split(DropTo(s, i + 1), sep)

\* sep.join(parts) for a one-character sep
RECURSIVE Join(_, _)
Join(parts, sep) ==
  IF Len(parts) = 0 THEN << >>
  ELSE IF Len(parts) = 1 THEN parts[1]
  ELSE parts[1] \o << sep >> \o Join(Tail(parts), sep)

\* s.lstrip(chars)
RECURSIVE LStrip(_, _)
LStrip(s, chars) ==
  IF s # << >> /\ s[1] \in chars THEN LStrip(Tail(s), chars) ELSE s

\* s.rstrip(chars)
RECURSIVE RStrip(_, _)
RStrip(s, chars) ==
  IF s # << >> /\ s[Len(s)] \in chars
  THEN RStrip(SubSeq(s, 1, Len(s) - 1), chars)
  ELSE s

\* s.strip(chars)
Strip(s, chars) == RStrip(LStrip(s, chars), chars)

\* the longest prefix of s made of characters outside the set stop
RECURSIVE RunOutside(_, _)
RunOutside(s, stop) ==
  IF s = << >> \/ s[1] \in stop THEN << >>
  ELSE << s[1] >> \o RunOutside(Tail(s), stop)

\* s.split(): the maximal runs of non-whitespace characters
RECURSIVE SplitWs(_)
SplitWs(s) ==
  LET t == LStrip(s, Whitespace)
      w == RunOutside(t, Whitespace)
  IN  IF t = << >> THEN << >>
      ELSE << w >> \o SplitWs(DropTo(t, Len(w) + 1))

\* re.findall(key + r'([^\s"]+)', s): the captured groups, left to right
RECURSIVE FindAll(_, _)
FindAll(key, s) ==
  IF s = << >> THEN << >>
  ELSE LET g == RunOutside(DropTo(s, Len(key) + 1), Whitespace \cup {"\""})
       IN  IF StartsWith(s, key) /\ g # << >>
           THEN << g >> \o FindAll(key, DropTo(s, Len(key) + Len(g) + 1))
           ELSE FindAll(key, Tail(s))

\* the set of the elements of a sequence
Range(q) == { q[i] : i \in 1..Len(q) }

(***************************************************************************)
(* Python dict: the keys in insertion order and the value of each key.     *)
(***************************************************************************)
EmptyDict == [keys |-> << >>, val |-> << >>]

\* k in d
DictHas(d, k) == k \in DOMAIN d.val

\* d[k] = v
DictSet(d, k, v) ==
  IF DictHas(d, k)
  THEN [d EXCEPT !.val = [x \in DOMAIN d.val |-> IF x = k THEN v ELSE d.val[x]]]
  ELSE [keys |-> Append(d.keys, k),
        val  |-> [x \in DOMAIN d.val \cup {k} |-> IF x = k THEN v ELSE d.val[x]]]

\* the orders in which iterating a set may yield its elements
Orders(S) == { q \in [1..Cardinality(S) -> S] : Range(q) = S }

(***************************************************************************)
(* dns_explorer.py: the pure functions.                                    *)
(***************************************************************************)
\* two labels are enough for a parent
ParentMinLabels_One == 2 - 1

\* the label count above which a domain has a parent
ParentMinLabels == 2

\* the first two labels are dropped
get_parent_domain_DropTwo(d) ==
  LET parts == Split(d, ".")
  IN  IF Len(parts) > ParentMinLabels THEN Join(Tail(Tail(parts)), ".") ELSE None

\* the last label is dropped
get_parent_domain_DropLast(d) ==
  LET parts == Split(d, ".")
  IN  IF Len(parts) > ParentMinLabels
      THEN Join(SubSeq(parts, 1, Len(parts) - 1), ".") ELSE None

get_parent_domain(d) ==
  LET parts == Split(d, ".")
  IN  IF Len(parts) > ParentMinLabels THEN Join(Tail(parts), ".") ELSE None

record_types ==
  << "A", "AAAA", "CNAME", "MX", "NS", "TXT", "SOA", "PTR", "CAA", "SRV" >>

\* one query of resolver.resolve: it raises, or it answers with texts
Raises == [ok |-> FALSE, texts |-> << >>]
Answers(texts) == [ok |-> TRUE, texts |-> texts]

\* the outcome of the ten queries for one domain, from the answered ones
Outcome(answered) ==
  [t \in Range(record_types) |->
     IF t \in DOMAIN answered THEN Answers(answered[t]) ELSE Raises]

\* resolve_all_records: the record types whose query did not raise
resolve_all_records(outcome) ==
  LET got == { t \in Range(record_types) : outcome[t].ok }
  IN  [t \in got |-> outcome[t].texts]

\* the targets of the values of one record type, by the rule of that type
WholeValue(v) == { RStrip(v, {"."}) }
TokenAt_First(v, n, least) ==
  LET parts == SplitWs(v)
  IN  IF Len(parts) >= least THEN { RStrip(parts[1], {"."}) } ELSE {}
TokenAt(v, n, least) ==
  LET parts == SplitWs(v)
  IN  IF Len(parts) >= least THEN { RStrip(parts[n], {"."}) } ELSE {}
TxtTargets(v) ==
  LET inc  == IF Contains(v, <<"i", "n", "c", "l", "u", "d", "e", ":">>)
              THEN FindAll(<<"i", "n", "c", "l", "u", "d", "e", ":">>, v)
              ELSE << >>
      red  == IF Contains(v, <<"r", "e", "d", "i", "r", "e", "c", "t", "=">>)
              THEN FindAll(<<"r", "e", "d", "i", "r", "e", "c", "t", "=">>, v)
              ELSE << >>
  IN  { RStrip(x, {"."}) : x \in Range(inc) \cup Range(red) }
CaaTargets(v) ==
  LET parts == SplitWs(v)
      domain_part == RStrip(Strip(parts[Len(parts)], {"\""}), {"."})
  IN  IF Len(parts) >= 3
      THEN IF Contains(domain_part, <<".">>)
              /\ ~StartsWith(domain_part, <<"h", "t", "t", "p">>)
           THEN { domain_part } ELSE {}
      ELSE {}

TargetsOf(rtype, v) ==
  CASE rtype = "CNAME" -> WholeValue(v)
    [] rtype = "MX"    -> TokenAt(v, 2, 2)
    [] rtype = "NS"    -> WholeValue(v)
    [] rtype = "SOA"   -> TokenAt(v, 1, 1)
    [] rtype = "SRV"   -> TokenAt(v, 4, 4)
    [] rtype = "TXT"   -> TxtTargets(v)
    [] rtype = "CAA"   -> CaaTargets(v)
    [] rtype = "PTR"   -> WholeValue(v)
    [] OTHER           -> {}

extract_domains_from_records(records, current_domain) ==
  LET fromRecords ==
        UNION { UNION { TargetsOf(t, v) : v \in Range(records[t]) } :
                  t \in DOMAIN records }
      parent == get_parent_domain(current_domain)
  IN  fromRecords \cup (IF Truthy(parent) THEN { parent } ELSE {})

(***************************************************************************)
(* dns_graph.py: the networkx DiGraph built by draw_dns_graph.  nodes is   *)
(* the node insertion order, layer the 'layer' attribute of the nodes that *)
(* have one, succ the successors of each node in insertion order.          *)
(***************************************************************************)
NoGraph == [built |-> FALSE, nodes |-> << >>, layer |-> << >>, succ |-> << >>]

\* the node is created when absent, with no attribute and no successor
TouchNode(G, n) ==
  IF n \in Range(G.nodes) THEN G
  ELSE [G EXCEPT !.nodes = Append(G.nodes, n),
                 !.succ  = [x \in DOMAIN G.succ \cup {n} |->
                              IF x = n THEN << >> ELSE G.succ[x]]]

\* G.add_node(n, layer=l)
add_node(G, n, l) ==
  LET H == TouchNode(G, n)
  IN  [H EXCEPT !.layer = [x \in DOMAIN H.layer \cup {n} |->
                             IF x = n THEN l ELSE H.layer[x]]]

\* G.add_edge(u, v): an edge already present is not added again
add_edge(G, u, v) ==
  LET H == TouchNode(TouchNode(G, u), v)
  IN  IF v \in Range(H.succ[u]) THEN H
      ELSE [H EXCEPT !.succ[u] = Append(H.succ[u], v)]

\* the nodes of the layer map are not added
AddNodes_Skipped(G, keys, all_domains) == G

RECURSIVE AddNodes(_, _, _)
AddNodes(G, keys, all_domains) ==
  IF keys = << >> THEN G
  ELSE AddNodes(add_node(G, Head(keys), all_domains.val[Head(keys)]),
                Tail(keys), all_domains)

RECURSIVE AddEdges(_, _)
AddEdges(G, edges) ==
  IF edges = << >> THEN G
  ELSE AddEdges(add_edge(G, Head(edges)[1], Head(edges)[2]), Tail(edges))

\* the graph of draw_dns_graph(edges, all_domains, ...)
draw_dns_graph(edges, all_domains) ==
  AddEdges(AddNodes([NoGraph EXCEPT !.built = TRUE], all_domains.keys,
                    all_domains),
           edges)

\* G.edges(): node by node, the successors of each
RECURSIVE EdgesFrom(_, _)
EdgesFrom(G, nodes) ==
  IF nodes = << >> THEN << >>
  ELSE [i \in 1..Len(G.succ[Head(nodes)]) |->
          << Head(nodes), G.succ[Head(nodes)][i] >>]
       \o EdgesFrom(G, Tail(nodes))
GraphEdges(G) == EdgesFrom(G, G.nodes)

\* layer_colors.get(layer, default_color)
LayerColor(l) ==
  CASE l = 1 -> "#6624a8"
    [] l = 2 -> "#e67e30"
    [] l = 3 -> "#e60029"
    [] l = 4 -> "#96CEB4"
    [] l = 5 -> "#4FC3F7"
    [] l = 6 -> "#FFD54F"
    [] OTHER -> "#DDA0DD"

\* a node without layer counts as layer 0
NodeLayer_Zero(G, n) == IF n \in DOMAIN G.layer THEN G.layer[n] ELSE 0

\* G.nodes[n].get('layer', 1)
NodeLayer(G, n) == IF n \in DOMAIN G.layer THEN G.layer[n] ELSE 1

\* s.replace('"', '\\"')
RECURSIVE EscapeQuotes(_)
EscapeQuotes(s) ==
  IF s = << >> THEN << >>
  ELSE (IF Head(s) = "\"" THEN << "\\", "\"" >> ELSE << Head(s) >>)
         \o EscapeQuotes(Tail(s))

\* for node in G.nodes(): "node" [fillcolor="color"];
DotNodeStatements(G) ==
  [i \in 1..Len(G.nodes) |->
     [name      |-> EscapeQuotes(G.nodes[i]),
      fillcolor |-> LayerColor(NodeLayer(G, G.nodes[i]))]]

\* for source, target in G.edges(): "source" -> "target" [color="color"];
DotEdgeStatements(G) ==
  LET edges == GraphEdges(G)
  IN  [i \in 1..Len(edges) |->
         [source |-> EscapeQuotes(edges[i][1]),
          target |-> EscapeQuotes(edges[i][2]),
          color  |-> LayerColor(NodeLayer(G, edges[i][1]))]]

\* export_to_dot(G, ...): the statements written between the header and
\* the closing brace
export_to_dot(G) ==
  [written |-> TRUE, nodes |-> DotNodeStatements(G),
   edges |-> DotEdgeStatements(G)]

\* no DOT file was written
NoDot == [written |-> FALSE, nodes |-> << >>, edges |-> << >>]

(***************************************************************************)
(* dns_graph.py: hierarchical_layout.  A coordinate is an exact fraction   *)
(* << numerator, denominator >> in lowest terms with a positive            *)
(* denominator; the rounding of Python's floats is left out.               *)
(***************************************************************************)
RECURSIVE GCD(_, _)
GCD(a, b) == IF b = 0 THEN a ELSE GCD(b, a % b)

Frac(n, d) ==
  LET g == GCD(IF n < 0 THEN -n ELSE n, d)
  IN  << n \div g, d \div g >>
FracAdd(p, q) == Frac(p[1] * q[2] + q[1] * p[2], p[2] * q[2])
FracSub(p, q) == Frac(p[1] * q[2] - q[1] * p[2], p[2] * q[2])
FracOver(p, k) == Frac(p[1], p[2] * k)
FracLess(p, q) == p[1] * q[2] < q[1] * p[2]

\* sum(ys) for the values f gives the elements of the set S
RECURSIVE FracSum(_, _)
FracSum(f, S) ==
  IF S = {} THEN Frac(0, 1)
  ELSE LET x == CHOOSE y \in S : TRUE
       IN  FracAdd(f[x], FracSum(f, S \ {x}))

\* x_spacing = 4.0
x_spacing == 4
\* y_spacing = 1.5
y_spacing == Frac(3, 2)

\* layers[l]: the nodes of layer l in the order of G.nodes()
LayerNodes(G, l) ==
  LET InLayer(n) == NodeLayer(G, n) = l
  IN  SelectSeq(G.nodes, InLayer)

\* G.predecessors(n)
Predecessors(G, n) == { u \in Range(G.nodes) : n \in Range(G.succ[u]) }

\* node_y_targets[n]: the mean y of the predecessors already placed, else 0
NodeYTarget(G, pos, n) ==
  LET placed == Predecessors(G, n) \cap DOMAIN pos
  IN  IF placed # {}
      THEN FracOver(FracSum([u \in placed |-> pos[u].y], placed),
                    Cardinality(placed))
      ELSE Frac(0, 1)

\* sorted(nodes, key=lambda n: node_y_targets[n], reverse=True): a stable
\* sort, nodes of equal target keep the order they have in nodes
ByTargetDescending(nodes, target) ==
  LET index(n) == CHOOSE i \in 1..Len(nodes) : nodes[i] = n
  IN  CHOOSE q \in Orders(Range(nodes)) :
        \A i, j \in 1..Len(q) :
          i < j => \/ FracLess(target[q[j]], target[q[i]])
                   \/ target[q[i]] = target[q[j]] /\ index(q[i]) < index(q[j])

\* the nodes of the sequence q placed one under the other from start_y
Column(q, x, start_y) ==
  [n \in Range(q) |->
     LET i == CHOOSE k \in 1..Len(q) : q[k] = n
     IN  [x |-> x,
          y |-> FracSub(start_y,
                        Frac(y_spacing[1] * (i - 1), y_spacing[2]))]]

\* total_height / 2 for a column of n nodes
HalfHeight(n) == Frac(y_spacing[1] * (n - 1), y_spacing[2] * 2)

\* the first layer: its nodes sorted by name, centred on y = 0
PlaceFirstLayer(G, l) ==
  LET nodes == Sorted(Range(LayerNodes(G, l)))
  IN  Column(nodes, l * x_spacing, HalfHeight(Len(nodes)))

\* a later layer: its nodes by descending target, centred on the mean target
PlaceLayer(G, pos, l) ==
  LET nodes  == LayerNodes(G, l)
      target == [n \in Range(nodes) |-> NodeYTarget(G, pos, n)]
      sorted_nodes == ByTargetDescending(nodes, target)
      center_y == FracOver(FracSum(target, Range(nodes)), Len(nodes))
  IN  IF Len(sorted_nodes) = 1
      THEN [n \in Range(nodes) |-> [x |-> l * x_spacing, y |-> target[n]]]
      ELSE Column(sorted_nodes, l * x_spacing,
                  FracAdd(center_y, HalfHeight(Len(sorted_nodes))))

\* the loop over sorted_layers[1:]
RECURSIVE PlaceLayers(_, _, _)
PlaceLayers(G, pos, ls) ==
  IF ls = {} THEN pos
  ELSE LET l == CHOOSE x \in ls : \A y \in ls : x <= y
           placed == PlaceLayer(G, pos, l)
       IN  PlaceLayers(G,
                       [n \in DOMAIN pos \cup DOMAIN placed |->
                          IF n \in DOMAIN placed THEN placed[n] ELSE pos[n]],
                       ls \ {l})

\* hierarchical_layout(G): pos, the coordinates of every node
hierarchical_layout(G) ==
  LET ls == { NodeLayer(G, n) : n \in Range(G.nodes) }
      first_layer == CHOOSE x \in ls : \A y \in ls : x <= y
  IN  IF ls = {} THEN << >>
      ELSE PlaceLayers(G, PlaceFirstLayer(G, first_layer), ls \ {first_layer})

(***************************************************************************)
(* The inputs: command line, prompt answers and resolver outcomes.         *)
(***************************************************************************)
S_a_b_example_com ==
  <<"a", ".", "b", ".", "e", "x", "a", "m", "p", "l", "e", ".", "c", "o", "m">>
S_b_example_com ==
  <<"b", ".", "e", "x", "a", "m", "p", "l", "e", ".", "c", "o", "m">>
S_example_com == <<"e", "x", "a", "m", "p", "l", "e", ".", "c", "o", "m">>
S_mail_example_com ==
  <<"m", "a", "i", "l", ".", "e", "x", "a", "m", "p", "l", "e", ".", "c", "o", "m">>

\* args.domain when -d is given, and the lines typed at the domain prompt
CliDomains == { << >>, S_example_com, S_a_b_example_com }
PromptDomains == { << >>, << " " >>, << " " >> \o S_example_com,
                   S_a_b_example_com }

\* args.layers, an int by argparse (3 when -l is absent)
CliLayers == (-1)..MaxLayersArg

\* the decimal text of a one-digit natural number
DigitText(n) == << CodePoints[Ord("0") + n] >>

\* the lines typed at the layer prompt
PromptLayers ==
  { DigitText(n) : n \in 0..MaxLayersArg }
    \cup { << "-", "1" >>, << " ", "2" >>, << "x" >>, << >> }

\* int(text) of a stripped line: the value, or ok = FALSE for ValueError
RECURSIVE DigitsValue(_)
DigitsValue(ds) ==
  IF ds = << >> THEN 0
  ELSE 10 * DigitsValue(SubSeq(ds, 1, Len(ds) - 1))
         + (Ord(ds[Len(ds)]) - Ord("0"))
IsDigit(c) == c \in { CodePoints[i] : i \in Ord("0")..Ord("9") }
ParseInt(text) ==
  LET neg == text # << >> /\ text[1] = "-"
      ds  == IF text # << >> /\ text[1] \in {"-", "+"} THEN Tail(text) ELSE text
  IN  IF ds # << >> /\ \A i \in 1..Len(ds) : IsDigit(ds[i])
      THEN [ok |-> TRUE, val |-> IF neg THEN 0 - DigitsValue(ds) ELSE DigitsValue(ds)]
      ELSE [ok |-> FALSE, val |-> 0]

\* the layer count interactive_mode falls back to
DefaultLayers == 3

\* the answers to the export prompt
PromptExports == { << "o" >>, << "n" >>, << " ", "Y", "e", "s" >>, << >> }

\* s.lower() on the letters of the answers
Lower(s) ==
  [i \in 1..Len(s) |-> IF s[i] = "Y" THEN "y" ELSE s[i]]

\* export in ('o', 'oui', 'y', 'yes')
DoExport(answer) ==
  Lower(Strip(answer, Whitespace)) \in
    { << "o" >>, << "o", "u", "i" >>, << "y" >>, << "y", "e", "s" >> }

\* what the ten queries for a domain may give
ResolverOutcomes ==
  { Outcome(<< >>),
    Outcome([NS |-> << S_a_b_example_com \o << "." >> >>]),
    Outcome([CNAME |-> << S_b_example_com \o << "." >> >>]),
    Outcome([MX |-> << << "1", "0", " " >> \o S_mail_example_com >>]) }

(***************************************************************************)
(* The state.                                                              *)
(***************************************************************************)
VARIABLES
  pc,              \* where the program is
  mode,            \* "cli" or "interactive", "none" before main chose
  printed_invalid, \* "Domaine invalide!" was the answer to the last line
  domain,          \* explore_dns: the start domain
  max_layers,      \* explore_dns: the layer bound
  layer,           \* explore_dns: the loop variable (0 before the loop)
  current_domains, \* explore_dns: the frontier
  all_resolved,    \* explore_dns: the visited set
  graph_edges,     \* explore_dns: the edge list
  domain_layers,   \* explore_dns: the layer map (a dict)
  to_resolve,      \* explore_dns: to_resolve, resolve_layer: domains
  todo,            \* resolve_layer: what is left of sorted(domains)
  next_domains,    \* resolve_layer: the next frontier being collected
  reported,        \* the layer counts printed by the early-stop message
  resolve_log,     \* the calls of resolve_all_records made by this run
  visited_at,      \* the layer at which all_resolved.update first added a domain
  G,               \* the graph drawn at the end of the run
  export,          \* explore_dns: the graph is to be exported
  dot_file,        \* the DOT file the run wrote, NoDot when it wrote none
  fn_arg,          \* the argument of a function evaluated on its own
  fn_ret           \* its result

vars ==
  << pc, mode, printed_invalid, domain, max_layers, layer, current_domains,
     all_resolved, graph_edges, domain_layers, to_resolve, todo, next_domains,
     reported, resolve_log, visited_at, G, export, dot_file, fn_arg, fn_ret >>

runVars ==
  << domain, max_layers, layer, current_domains, all_resolved, graph_edges,
     domain_layers, to_resolve, todo, next_domains, reported, resolve_log,
     visited_at, G, export, dot_file >>

\* no run of explore_dns is in progress: its locals do not exist
NoRun ==
  /\ domain = None
  /\ max_layers = 0
  /\ layer = 0
  /\ current_domains = {}
  /\ all_resolved = {}
  /\ graph_edges = << >>
  /\ domain_layers = EmptyDict
  /\ to_resolve = {}
  /\ todo = << >>
  /\ next_domains = {}
  /\ reported = << >>
  /\ resolve_log = << >>
  /\ visited_at = << >>
  /\ G = NoGraph
  /\ export = FALSE
  /\ dot_file = NoDot

Init ==
  /\ pc = "main"
  /\ mode = "none"
  /\ printed_invalid = FALSE
  /\ NoRun
  /\ fn_arg = None
  /\ fn_ret = None

(***************************************************************************)
(* explore_dns.                                                            *)
(***************************************************************************)
\* to_resolve = current_domains - all_resolved
ToResolve(current, resolved) == current \ resolved

\* the loop never stops early
FrontierExhausted_Never(tr) == FALSE

\* if not to_resolve: break
FrontierExhausted(tr) == tr = {}

\* the visited set is left as it was
UpdateResolved_Skipped(resolved, tr) == resolved

\* all_resolved.update(to_resolve)
UpdateResolved(resolved, tr) == resolved \cup tr

\* the layer after the one being resolved is recorded
RecordLayer_OffByOne(layers, d, layer_num) == DictSet(layers, d, layer_num + 1)

\* every domain is recorded with the first layer
RecordLayer_AlwaysFirst(layers, d, layer_num) == DictSet(layers, d, 1)

\* no layer is recorded
RecordLayer_Skipped(layers, d, layer_num) == layers

\* domain_layers[domain] = layer_num
RecordLayer(layers, d, layer_num) == DictSet(layers, d, layer_num)

\* the parent check never adds anything
ParentIsNew_Never(parent, resolved, domains) == FALSE

\* the visited set is not looked at
ParentIsNew_IgnoreVisited(parent, resolved, domains) ==
  Truthy(parent) /\ parent \notin domains

\* parent and parent not in all_resolved and parent not in domains
ParentIsNew(parent, resolved, domains) ==
  Truthy(parent) /\ parent \notin resolved /\ parent \notin domains

\* the targets already collected are subtracted too
NewDomains_MinusCollected(found, resolved, domains) ==
  ((found \ resolved) \ domains) \ next_domains

\* the visited set is not subtracted
NewDomains_KeepVisited(found, resolved, domains) == found \ domains

\* new_domains = found - all_resolved - domains
NewDomains(found, resolved, domains) == (found \ resolved) \ domains

\* the entry of explore_dns(domain, max_layers, export), up to the loop;
\* output_dir keeps its default, a non-empty name
EnterExplore(d, m, e) ==
  /\ pc' = "loop"
  /\ printed_invalid' = FALSE
  /\ domain' = d
  /\ max_layers' = m
  /\ layer' = 0
  /\ current_domains' = { d }
  /\ all_resolved' = {}
  /\ graph_edges' = << >>
  /\ domain_layers' = EmptyDict
  /\ to_resolve' = {}
  /\ todo' = << >>
  /\ next_domains' = {}
  /\ reported' = << >>
  /\ resolve_log' = << >>
  /\ visited_at' = << >>
  /\ G' = NoGraph
  /\ export' = e
  /\ dot_file' = NoDot

\* main(): the parsed arguments choose the mode
Main ==
  /\ pc = "main"
  /\ \E loop \in BOOLEAN, d \in CliDomains \cup { None }, l \in CliLayers,
        e \in BOOLEAN :
       IF loop \/ d = None
       THEN /\ mode' = "interactive"
            /\ pc' = "prompt"
            /\ UNCHANGED << printed_invalid, runVars >>
       ELSE /\ mode' = "cli"
            /\ EnterExplore(d, l, e)
  /\ UNCHANGED << fn_arg, fn_ret >>

\* interactive_mode(): one round of the three prompts
Prompt ==
  /\ pc = "prompt"
  /\ \E line \in PromptDomains, count \in PromptLayers,
        answer \in PromptExports :
       LET d == Strip(line, Whitespace)
           n == ParseInt(Strip(count, Whitespace))
       IN  IF d = << >>
           THEN /\ printed_invalid' = TRUE
                /\ UNCHANGED << pc, runVars >>
           ELSE EnterExplore(d, IF n.ok THEN n.val ELSE DefaultLayers,
                             DoExport(answer))
  /\ UNCHANGED << mode, fn_arg, fn_ret >>

\* the head of "for layer in range(1, max_layers + 1)" up to resolve_layer
LoopHead ==
  /\ pc = "loop"
  /\ IF layer + 1 > max_layers
     THEN /\ pc' = "summary"
          /\ UNCHANGED << layer, to_resolve, reported, all_resolved,
                          visited_at, todo, next_domains >>
     ELSE LET tr == ToResolve(current_domains, all_resolved)
          IN  /\ layer' = layer + 1
              /\ to_resolve' = tr
              /\ IF FrontierExhausted(tr)
                 THEN /\ reported' = Append(reported, layer' - 1)
                      /\ pc' = "summary"
                      /\ UNCHANGED << all_resolved, visited_at, todo,
                                      next_domains >>
                 ELSE /\ all_resolved' = UpdateResolved(all_resolved, tr)
                      /\ visited_at' =
                           [x \in DOMAIN visited_at \cup tr |->
                              IF x \in DOMAIN visited_at THEN visited_at[x] ELSE layer']
                      /\ next_domains' = {}
                      /\ todo' = Sorted(tr)
                      /\ pc' = "resolve_layer"
                      /\ UNCHANGED reported
  /\ UNCHANGED << mode, printed_invalid, domain, max_layers, current_domains,
                  graph_edges, domain_layers, resolve_log, G, export, dot_file,
                  fn_arg, fn_ret >>

\* the sequence q without its i-th element
RemoveAt(q, i) == SubSeq(q, 1, i - 1) \o SubSeq(q, i + 1, Len(q))

\* resolve_layer: the body of the loop over the domains for the i-th domain
\* left, answered by one of the resolver outcomes given
ProcessAt(i, outcomes) ==
  /\ pc = "resolve_layer"
  /\ i \in 1..Len(todo)
  /\ \E outcome \in outcomes :
       LET d           == todo[i]
           records     == resolve_all_records(outcome)
           parent      == get_parent_domain(d)
           parentEdge  == IF ParentIsNew(parent, all_resolved, to_resolve)
                          THEN << << d, parent >> >> ELSE << >>
           found       == extract_domains_from_records(records, d)
           new_domains == NewDomains(found, all_resolved, to_resolve)
       IN  /\ domain_layers' = RecordLayer(domain_layers, d, layer)
           /\ resolve_log' =
                Append(resolve_log, [domain |-> d, records |-> records])
           /\ \E order \in Orders(new_domains) :
                graph_edges' =
                  graph_edges \o parentEdge
                    \o [j \in 1..Len(order) |-> << d, order[j] >>]
           /\ next_domains' =
                next_domains \cup { e[2] : e \in Range(parentEdge) }
                  \cup new_domains
  /\ todo' = RemoveAt(todo, i)
  /\ UNCHANGED << pc, mode, printed_invalid, domain, max_layers, layer,
                  current_domains, all_resolved, to_resolve, reported,
                  visited_at, G, export, dot_file, fn_arg, fn_ret >>

\* resolve_layer: the body of "for domain in sorted(domains)" for one domain
ProcessDomain == ProcessAt(1, ResolverOutcomes)

\* resolve_layer returns: current_domains = next_domains
LayerReturn ==
  /\ pc = "resolve_layer"
  /\ todo = << >>
  /\ current_domains' = next_domains
  /\ pc' = "loop"
  /\ UNCHANGED << mode, printed_invalid, domain, max_layers, layer,
                  all_resolved, graph_edges, domain_layers, to_resolve, todo,
                  next_domains, reported, resolve_log, visited_at, G, export,
                  dot_file, fn_arg, fn_ret >>

\* the summary, the graph when there is a layer map, its export when asked
\* for, and the return
Summary ==
  /\ pc = "summary"
  /\ G' = IF Len(domain_layers.keys) > 0
          THEN draw_dns_graph(graph_edges, domain_layers)
          ELSE NoGraph
  /\ dot_file' = IF Len(domain_layers.keys) > 0 /\ export
                 THEN export_to_dot(G')
                 ELSE NoDot
  /\ pc' = "returned"
  /\ UNCHANGED << mode, printed_invalid, domain, max_layers, layer,
                  current_domains, all_resolved, graph_edges, domain_layers,
                  to_resolve, todo, next_domains, reported, resolve_log,
                  visited_at, export, fn_arg, fn_ret >>

\* interactive_mode drops the result and prompts again
Restart ==
  /\ pc = "returned"
  /\ mode = "interactive"
  /\ pc' = "prompt"
  /\ domain' = None
  /\ max_layers' = 0
  /\ layer' = 0
  /\ current_domains' = {}
  /\ all_resolved' = {}
  /\ graph_edges' = << >>
  /\ domain_layers' = EmptyDict
  /\ to_resolve' = {}
  /\ todo' = << >>
  /\ next_domains' = {}
  /\ reported' = << >>
  /\ resolve_log' = << >>
  /\ visited_at' = << >>
  /\ G' = NoGraph
  /\ export' = FALSE
  /\ dot_file' = NoDot
  /\ UNCHANGED << mode, printed_invalid, fn_arg, fn_ret >>

Next ==
  \/ Main
  \/ Prompt
  \/ LoopHead
  \/ ProcessDomain
  \/ LayerReturn
  \/ Summary
  \/ Restart

Spec == Init /\ [][Next]_vars

\* The interpreter goes on to the next statement of a run of explore_dns.
\* ControlStep and DomainStep are the steps of LoopHead, LayerReturn, Summary
\* and ProcessDomain as seen on pc and todo: the four actions are enabled
\* exactly when these are, and each of their steps is one of these.
ControlStep ==
  \/ pc = "loop" /\ pc' \in {"resolve_layer", "summary"}
  \/ pc = "resolve_layer" /\ todo = << >> /\ pc' = "loop"
  \/ pc = "summary" /\ pc' = "returned"

DomainStep ==
  /\ pc = "resolve_layer"
  /\ todo # << >>
  /\ todo' = Tail(todo)

\* a run of explore_dns that was started keeps taking its steps
FairSpec == Spec /\ WF_pc(ControlStep) /\ WF_todo(DomainStep)

(***************************************************************************)
(* get_parent_domain evaluated on its own, on every short string.          *)
(***************************************************************************)
S_a_b_c_com == <<"a", ".", "b", ".", "c", ".", "c", "o", "m">>
S_b_c_com == <<"b", ".", "c", ".", "c", "o", "m">>
S_a_b == <<"a", ".", "b">>

\* the strings of at most n characters over the given characters
RECURSIVE StringsUpTo(_, _)
StringsUpTo(chars, n) ==
  IF n = 0 THEN { << >> }
  ELSE LET shorter == StringsUpTo(chars, n - 1)
       IN  shorter \cup { Append(x, c) : x \in shorter, c \in chars }

ParentInputs ==
  StringsUpTo({"a", "b", "."}, MaxLen)
    \cup { S_a_b_c_com, S_example_com, S_a_b }

InitParent ==
  /\ pc = "call"
  /\ mode = "none"
  /\ printed_invalid = FALSE
  /\ NoRun
  /\ fn_arg \in ParentInputs
  /\ fn_ret = None

CallParent ==
  /\ pc = "call"
  /\ fn_ret' = get_parent_domain(fn_arg)
  /\ pc' = "called"
  /\ UNCHANGED << mode, printed_invalid, runVars, fn_arg >>

NextParent == CallParent

SpecParent == InitParent /\ [][NextParent]_vars

(***************************************************************************)
(* Vocabulary of the properties.                                           *)
(***************************************************************************)
\* the positions of the dots of a string
Dots(s) == { i \in 1..Len(s) : s[i] = "." }

\* the number of labels of a string
LabelCount(s) == Cardinality(Dots(s)) + 1

\* what follows the first dot of a string that has one
AfterFirstDot(s) ==
  DropTo(s, (CHOOSE i \in Dots(s) : \A j \in Dots(s) : i <= j) + 1)

\* explore_dns is running or has returned
InRun == pc \in {"loop", "resolve_layer", "summary", "returned"}

\* no layer step is under way
BetweenLayers == pc \in {"loop", "summary", "returned"}

\* every call of the resolver so far gave no record of any type
AllAnswersEmpty ==
  \A i \in 1..Len(resolve_log) : DOMAIN resolve_log[i].records = {}

\* the layer map has a layer for d
HasLayer(d) == DictHas(domain_layers, d)
LayerOf(d) == domain_layers.val[d]

(***************************************************************************)
(* Properties.                                                             *)
(***************************************************************************)

\* C1: in a run of explore_dns the resolver is called at most once for a
\* domain string, and the domains of the layer being resolved were not in
\* the visited set of an earlier layer.
C1_ResolvedAtMostOnce ==
  /\ \A i, j \in 1..Len(resolve_log) :
       i # j => resolve_log[i].domain # resolve_log[j].domain
  /\ pc = "resolve_layer" =>
       \A d \in to_resolve : visited_at[d] = layer

\* a later layer found a domain of an earlier layer again, and the run ended
\* with one resolver call for it
C1_Witness ==
  /\ pc = "returned"
  /\ \E i, j \in 1..Len(resolve_log) :
       /\ i < j
       /\ visited_at[resolve_log[i].domain] < visited_at[resolve_log[j].domain]
       /\ resolve_log[i].domain \in
            extract_domains_from_records(resolve_log[j].records,
                                         resolve_log[j].domain)

\* C2: between layer steps the keys of the layer map are the visited set and
\* the layer of a domain is the layer at which it entered the visited set;
\* no step of the run changes the layer of a domain that has one.
C2_OneLayerPerDomain ==
  [][ /\ BetweenLayers' =>
           /\ Range(domain_layers'.keys) = all_resolved'
           /\ DOMAIN domain_layers'.val = all_resolved'
           /\ Len(domain_layers'.keys) = Cardinality(all_resolved')
           /\ \A d \in all_resolved' : domain_layers'.val[d] = visited_at'[d]
      /\ \A d \in DOMAIN domain_layers.val :
           d \in DOMAIN domain_layers'.val =>
             domain_layers'.val[d] = domain_layers.val[d]
    ]_vars

\* three layers are complete and each gave a layer to some domain
C2_Witness ==
  /\ pc = "loop"
  /\ layer = 3
  /\ \A l \in 1..3 : \E d \in all_resolved : HasLayer(d) /\ LayerOf(d) = l

\* C3 as stated: every edge of the returned edge list goes from a domain of
\* some layer to a domain of the next layer.
C3_EveryEdgeToNextLayer ==
  pc = "returned" =>
    \A e \in Range(graph_edges) :
      /\ HasLayer(e[1])
      /\ HasLayer(e[2])
      /\ LayerOf(e[2]) = LayerOf(e[1]) + 1

\* the edges a step appends to the edge list
AppendedEdges ==
  IF Len(graph_edges') > Len(graph_edges)
  THEN { graph_edges'[i] : i \in (Len(graph_edges) + 1)..Len(graph_edges') }
  ELSE {}

\* C3 amended: in the returned edge list the target of an edge has the layer
\* after its source's, or the source has layer max_layers and the target was
\* never visited and has no layer; no edge is appended whose target is in
\* the visited set.
C3_EdgeToNextLayerOrUnvisited ==
  [][ /\ pc' = "returned" =>
           \A e \in Range(graph_edges') :
             /\ DictHas(domain_layers', e[1])
             /\ \/ /\ DictHas(domain_layers', e[2])
                   /\ domain_layers'.val[e[2]] = domain_layers'.val[e[1]] + 1
                \/ /\ ~DictHas(domain_layers', e[2])
                   /\ e[2] \notin all_resolved'
                   /\ domain_layers'.val[e[1]] = max_layers'
      /\ \A e \in AppendedEdges : e[2] \notin all_resolved
    ]_vars

\* a returned run with an edge to a visited domain, an edge to a domain the
\* layer bound left unvisited, and a visited domain that a later layer found
\* again without an edge to it
C3_Witness ==
  /\ pc = "returned"
  /\ \E e \in Range(graph_edges) : HasLayer(e[2])
  /\ \E e \in Range(graph_edges) : ~HasLayer(e[2])
  /\ \E i \in 1..Len(resolve_log) :
       \E t \in extract_domains_from_records(resolve_log[i].records,
                                             resolve_log[i].domain) :
         /\ HasLayer(t)
         /\ LayerOf(t) <= LayerOf(resolve_log[i].domain)
         /\ << resolve_log[i].domain, t >> \notin Range(graph_edges)

\* the domains the layer map gives layer l
AtLayer(l) == { d \in DOMAIN domain_layers.val : domain_layers.val[d] = l }

\* the layer steps a returned run went through
CompletedLayers == IF reported # << >> THEN layer - 1 ELSE layer

\* what holds of a returned run: at most max_layers layer steps, each of
\* them resolved some domain, one resolver call per visited domain, and a
\* run that ended before max_layers ended at the first empty to_resolve and
\* reported the layers before it
C4_StopsAtBoundOrEmptyFrontier ==
  /\ pc = "resolve_layer" => layer <= max_layers
  /\ pc = "returned" =>
       /\ CompletedLayers <= (IF max_layers > 0 THEN max_layers ELSE 0)
       /\ Len(resolve_log) = Cardinality(all_resolved)
       /\ \A l \in 1..CompletedLayers : AtLayer(l) # {}
       /\ \A d \in DOMAIN domain_layers.val : LayerOf(d) <= CompletedLayers
       /\ IF reported # << >>
          THEN /\ reported = << layer - 1 >>
               /\ to_resolve = {}
               /\ current_domains \ all_resolved = {}
          ELSE layer = (IF max_layers > 0 THEN max_layers ELSE 0)

\* C4: a run of explore_dns reaches its return, after at most max_layers
\* layer steps, and after fewer only when the to_resolve set of the next
\* layer was empty, with no resolver call for that layer.
C4_Terminates ==
  /\ [] C4_StopsAtBoundOrEmptyFrontier
  /\ (pc = "loop") ~> (pc = "returned")

\* a run that stopped at an empty to_resolve set after two layers, below
\* its bound
C4_Witness ==
  /\ pc = "returned"
  /\ reported = << 2 >>
  /\ layer = 3
  /\ max_layers >= 3
  /\ Cardinality(all_resolved) >= 2

\* C5: a run with a non-positive max_layers or an empty start domain is
\* rejected: explore_dns does not go through its loop and return for it.
C5_InvalidConfigurationRejected ==
  pc = "returned" => (max_layers >= 1 /\ domain # << >>)

\* the runs C6 is about, at their return
C6_Scenario ==
  /\ pc = "returned"
  /\ domain = S_a_b_example_com
  /\ max_layers = 2
  /\ AllAnswersEmpty

\* C6 as stated: from "a.b.example.com" with max_layers = 2 and no record
\* for any domain, the run returns the two domains of the parent chain, at
\* layers 1 and 2, and the edge between them is the edge of the graph.
C6_ParentChainOneEdge ==
  C6_Scenario =>
    /\ all_resolved = { S_a_b_example_com, S_b_example_com }
    /\ DOMAIN domain_layers.val = all_resolved
    /\ LayerOf(S_a_b_example_com) = 1
    /\ LayerOf(S_b_example_com) = 2
    /\ Range(graph_edges) = { << S_a_b_example_com, S_b_example_com >> }

\* C6 amended: the run returns the two domains, at layers 1 and 2, and the
\* edges of the graph are the edge between them and the edge from
\* "b.example.com" to its parent "example.com", which is a node of the graph
\* that was not visited and has no layer.
C6_ParentChainTwoEdges ==
  C6_Scenario =>
    /\ all_resolved = { S_a_b_example_com, S_b_example_com }
    /\ DOMAIN domain_layers.val = all_resolved
    /\ LayerOf(S_a_b_example_com) = 1
    /\ LayerOf(S_b_example_com) = 2
    /\ Range(graph_edges) = { << S_a_b_example_com, S_b_example_com >>,
                              << S_b_example_com, S_example_com >> }
    /\ G.built
    /\ Range(GraphEdges(G)) = Range(graph_edges)
    /\ Range(G.nodes) = all_resolved \cup { S_example_com }
    /\ DOMAIN G.layer = all_resolved

\* the scenario of C6 ran to its return
C6_Witness ==
  /\ C6_Scenario
  /\ Len(resolve_log) = 2
  /\ Len(graph_edges) > 0

\* the runs C7 is about
C7_Scenario ==
  /\ InRun
  /\ domain = S_a_b_example_com
  /\ max_layers >= 2
  /\ AllAnswersEmpty

\* C7 as stated: from "a.b.example.com" with no record for any domain and
\* max_layers >= 2, layer 2 leaves an empty frontier and the run returns
\* with the two domains "a.b.example.com" and "b.example.com" visited.
C7_HaltsAfterLayerTwo ==
  C7_Scenario =>
    /\ (pc = "loop" /\ layer = 2) => current_domains = {}
    /\ pc = "returned" =>
         all_resolved = { S_a_b_example_com, S_b_example_com }

\* C7 amended: "b.example.com" has three labels, so layer 2 leaves the
\* frontier {"example.com"}; "example.com" has no parent, so layer 3 leaves
\* an empty frontier; the run returns, with the two domains visited when
\* max_layers = 2 and with the three domains visited after layer 3 when
\* max_layers >= 3.
C7_HaltsAfterLayerThree ==
  /\ [] ( C7_Scenario =>
            /\ (pc = "loop" /\ layer = 2) =>
                 current_domains = { S_example_com }
            /\ (pc = "loop" /\ layer = 3) => current_domains = {}
            /\ pc = "returned" =>
                 /\ max_layers = 2 =>
                      all_resolved = { S_a_b_example_com, S_b_example_com }
                 /\ max_layers >= 3 =>
                      /\ all_resolved = { S_a_b_example_com, S_b_example_com,
                                          S_example_com }
                      /\ CompletedLayers = 3
                      /\ Len(resolve_log) = 3
                      /\ max_layers > 3 => reported = << 3 >> )
  /\ (C7_Scenario /\ pc = "loop" /\ layer = 0)
       ~> (pc = "returned" \/ ~AllAnswersEmpty)

\* the scenario of C7 returned after its third layer
C7_Witness ==
  /\ C7_Scenario
  /\ pc = "returned"
  /\ max_layers >= 3
  /\ CompletedLayers = 3

\* the start domain got no record of any type
StartAnswerEmpty ==
  /\ Len(resolve_log) >= 1
  /\ resolve_log[1].domain = domain
  /\ DOMAIN resolve_log[1].records = {}

\* the graph has the start domain as its one node and no edge
OneNodeGraph ==
  /\ G.built
  /\ G.nodes = << domain >>
  /\ GraphEdges(G) = << >>
  /\ graph_edges = << >>

\* C8 as stated: whenever the start domain gets no record and
\* max_layers >= 1, the returned graph is the start domain alone.
C8_UnresolvableStartOneNode ==
  (pc = "returned" /\ max_layers >= 1 /\ StartAnswerEmpty) => OneNodeGraph

\* C8 amended: whenever a start domain of at most two labels gets no record
\* and max_layers >= 1, the returned graph is the start domain alone.
C8_UnresolvableRootOneNode ==
  ( /\ pc = "returned"
    /\ max_layers >= 1
    /\ StartAnswerEmpty
    /\ LabelCount(domain) <= 2 )
  => (OneNodeGraph /\ all_resolved = { domain })

\* "example.com" got no record and the run returned under a bound of 3
C8_Witness ==
  /\ pc = "returned"
  /\ max_layers = 3
  /\ domain = S_example_com
  /\ StartAnswerEmpty

\* the resolver call a step makes, when it gave no record
EmptyAnswerStep ==
  /\ Len(resolve_log') = Len(resolve_log) + 1
  /\ DOMAIN resolve_log'[Len(resolve_log')].records = {}

\* C9: after the step that resolves a domain d of to_resolve to no record,
\* the run goes on, d is visited with the layer being resolved, and when d
\* has more than two labels and what follows its first label is neither
\* visited nor in to_resolve, the edge from d to it is in the edge list and
\* it is in the next frontier.
C9_EmptyAnswerAbsorbed ==
  [][ EmptyAnswerStep =>
        LET d == resolve_log'[Len(resolve_log')].domain
        IN  /\ pc' = "resolve_layer"
            /\ d \in to_resolve
            /\ d \in all_resolved'
            /\ DictHas(domain_layers', d)
            /\ domain_layers'.val[d] = layer'
            /\ ( /\ LabelCount(d) > 2
                 /\ AfterFirstDot(d) \notin all_resolved
                 /\ AfterFirstDot(d) \notin to_resolve )
               => /\ << d, AfterFirstDot(d) >> \in AppendedEdges
                  /\ AfterFirstDot(d) \in next_domains'
    ]_vars

\* a domain of the second layer got no record and its parent went to the
\* next frontier
C9_Witness ==
  /\ pc = "resolve_layer"
  /\ layer = 2
  /\ \E i \in 1..Len(resolve_log) :
       /\ DOMAIN resolve_log[i].records = {}
       /\ resolve_log[i].domain = S_mail_example_com
       /\ S_example_com \in next_domains
       /\ << S_mail_example_com, S_example_com >> \in Range(graph_edges)

\* C10: get_parent_domain gives what follows the first label of a string of
\* more than two labels and None for any other string; "a.b.c.com" gives
\* "b.c.com", "example.com" and "a.b" give None.
C10_ParentRule ==
  pc = "called" =>
    /\ fn_ret = (IF LabelCount(fn_arg) > 2 THEN AfterFirstDot(fn_arg) ELSE None)
    /\ fn_arg = S_a_b_c_com => fn_ret = S_b_c_com
    /\ fn_arg = S_example_com => fn_ret = None
    /\ fn_arg = S_a_b => fn_ret = None

\* get_parent_domain("a.b.c.com") was evaluated
C10_Witness ==
  /\ pc = "called"
  /\ fn_arg = S_a_b_c_com
  /\ fn_ret = S_b_c_com

(***************************************************************************)
(* extract_domains_from_records evaluated on its own, on record sets made  *)
(* of a few values of a pool and on a few current domains.                 *)
(***************************************************************************)
\* the most values a record set of the inputs holds
MaxValues == 2

T_mx == << "1", "0", " " >> \o S_mail_example_com
T_spf ==
  <<"v", "=", "s", "p", "f", "1", " ", "i", "n", "c", "l", "u", "d", "e", ":",
    "s", "p", "f", ".", "e", "x", "a", "m", "p", "l", "e", ".", "n", "e", "t",
    " ", "r", "e", "d", "i", "r", "e", "c", "t", "=", "f", "o", "o", ".", "e",
    "x", "a", "m", "p", "l", "e", ".", "o", "r", "g">>
S_spf_example_net ==
  <<"s", "p", "f", ".", "e", "x", "a", "m", "p", "l", "e", ".", "n", "e", "t">>
S_foo_example_org ==
  <<"f", "o", "o", ".", "e", "x", "a", "m", "p", "l", "e", ".", "o", "r", "g">>
T_soa ==
  <<"n", "s", ".", "e", "x", "a", "m", "p", "l", "e", ".", "c", "o", "m", ".",
    " ", "h", "o", "s", "t", "m", "a", "s", "t", "e", "r", ".", "e", "x", "a",
    "m", "p", "l", "e", ".", "c", "o", "m", ".", " ", "1", " ", "2", " ", "3",
    " ", "4", " ", "5">>
T_srv ==
  <<"0", " ", "5", " ", "8", "0", " ", "s", "i", "p", ".", "e", "x", "a", "m",
    "p", "l", "e", ".", "c", "o", "m", ".">>
T_caa_issue ==
  <<"3", " ", "i", "s", "s", "u", "e", " ", "\"", "l", "e", "t", "s", "e", "n",
    "c", "r", "y", "p", "t", ".", "o", "r", "g", "\"">>
T_caa_iodef ==
  <<"0", " ", "i", "o", "d", "e", "f", " ", "\"", "h", "t", "t", "p", ":", "/",
    "/", "e", "x", "a", "m", "p", "l", "e", ".", "c", "o", "m", "/", "c", "a",
    "a", "\"">>
T_ptr ==
  <<"h", "o", "s", "t", ".", "e", "x", "a", "m", "p", "l", "e", ".", "c", "o",
    "m", ".">>

\* the record values the inputs are made of
ValuePool ==
  << [rtype |-> "CNAME", text |-> S_b_example_com \o << "." >>],
     [rtype |-> "MX",    text |-> T_mx],
     [rtype |-> "MX",    text |-> << "1", "0" >>],
     [rtype |-> "NS",    text |-> S_a_b_example_com \o << "." >>],
     [rtype |-> "SOA",   text |-> T_soa],
     [rtype |-> "SRV",   text |-> T_srv],
     [rtype |-> "SRV",   text |-> << "0", " ", "5", " ", "8", "0" >>],
     [rtype |-> "TXT",   text |-> T_spf],
     [rtype |-> "TXT",   text |-> << "v", "=", "s", "p", "f", "1", " ", "-",
                                     "a", "l", "l" >>],
     [rtype |-> "TXT",   text |-> << "i", "n", "c", "l", "u", "d", "e", ":",
                                     " ", "x" >>],
     [rtype |-> "CAA",   text |-> T_caa_issue],
     [rtype |-> "CAA",   text |-> T_caa_iodef],
     [rtype |-> "CAA",   text |-> << "0", " ", "i", "s", "s", "u", "e" >>],
     [rtype |-> "PTR",   text |-> T_ptr],
     [rtype |-> "A",     text |-> << "1", ".", "2", ".", "3", ".", "4" >>] >>

\* the subsequence of q at the increasing indices of the set I
RECURSIVE Pick(_, _)
Pick(q, I) ==
  IF I = {} THEN << >>
  ELSE LET i == CHOOSE x \in I : \A y \in I : x <= y
       IN  << q[i] >> \o Pick(q, I \ {i})

\* the dict of the answers made of the pool values at the indices I
RecordsOf(I) ==
  LET types == { ValuePool[i].rtype : i \in I }
  IN  [t \in types |->
         Pick([i \in 1..Len(ValuePool) |-> ValuePool[i].text],
              { i \in I : ValuePool[i].rtype = t })]

ExtractRecords ==
  { RecordsOf(I) :
      I \in { J \in SUBSET (1..Len(ValuePool)) : Cardinality(J) <= MaxValues } }

ExtractDomains ==
  { S_example_com, S_a_b_example_com, S_example_com \o << "." >>,
    S_a_b_example_com \o << "." >> }

InitExtract ==
  /\ pc = "call_extract"
  /\ mode = "none"
  /\ printed_invalid = FALSE
  /\ NoRun
  /\ fn_arg \in [records : ExtractRecords, domain : ExtractDomains]
  /\ fn_ret = None

CallExtract ==
  /\ pc = "call_extract"
  /\ fn_ret' = extract_domains_from_records(fn_arg.records, fn_arg.domain)
  /\ pc' = "extracted"
  /\ UNCHANGED << mode, printed_invalid, runVars, fn_arg >>

NextExtract == CallExtract

SpecExtract == InitExtract /\ [][NextExtract]_vars

(***************************************************************************)
(* Vocabulary of the properties of extract_domains_from_records: the       *)
(* targets of a record value stated by position in the text.               *)
(***************************************************************************)
\* the positions where a whitespace-separated token of v starts
TokenStarts(v) ==
  { i \in 1..Len(v) :
      v[i] \notin Whitespace /\ (i = 1 \/ v[i - 1] \in Whitespace) }

\* the last position of the run of characters outside stop that starts at i
\* (i - 1 when the run is empty)
RunEnd(v, i, stop) ==
  CHOOSE e \in (i - 1)..Len(v) :
    /\ \A k \in i..e : v[k] \notin stop
    /\ e = Len(v) \/ v[e + 1] \in stop

\* the n-th whitespace-separated token of v, which has at least n tokens
NthToken(v, n) ==
  LET i == CHOOSE x \in TokenStarts(v) :
             Cardinality({ y \in TokenStarts(v) : y <= x }) = n
  IN  SubSeq(v, i, RunEnd(v, i, Whitespace))

\* s without the dots it ends with
WithoutTrailingDots(s) ==
  LET e == CHOOSE k \in 0..Len(s) :
             /\ k = 0 \/ s[k] # "."
             /\ \A j \in (k + 1)..Len(s) : s[j] = "."
  IN  SubSeq(s, 1, e)

\* s without the double quotes it starts and ends with
WithoutQuotes(s) ==
  LET inner == { k \in 1..Len(s) : s[k] # "\"" }
  IN  IF inner = {} THEN << >>
      ELSE SubSeq(s, CHOOSE k \in inner : \A j \in inner : k <= j,
                     CHOOSE k \in inner : \A j \in inner : j <= k)

\* key occurs in v at position i
OccursAt(key, v, i) ==
  /\ i + Len(key) - 1 <= Len(v)
  /\ SubSeq(v, i, i + Len(key) - 1) = key

\* the tokens that follow key in v: at every occurrence of key that a token
\* of an earlier occurrence does not cover, the non-empty run of characters
\* other than whitespace and double quote
KeyTokens(key, v) ==
  LET stop == Whitespace \cup {"\""}
      last(i) == RunEnd(v, i + Len(key), stop)
      occ == { i \in 1..Len(v) :
                 OccursAt(key, v, i) /\ last(i) >= i + Len(key) }
      live[i \in 1..Len(v)] ==
        /\ i \in occ
        /\ \A j \in occ : j < i /\ i <= last(j) => ~live[j]
  IN  { SubSeq(v, i + Len(key), last(i)) : i \in { x \in occ : live[x] } }

\* the targets the value v of a record of type rtype names
ExpectedTargets(rtype, v) ==
  LET n == Cardinality(TokenStarts(v))
      field == WithoutTrailingDots(WithoutQuotes(NthToken(v, n)))
  IN  CASE rtype \in {"CNAME", "NS", "PTR"} -> { WithoutTrailingDots(v) }
        [] rtype = "MX"  ->
             IF n >= 2 THEN { WithoutTrailingDots(NthToken(v, 2)) } ELSE {}
        [] rtype = "SOA" ->
             IF n >= 1 THEN { WithoutTrailingDots(NthToken(v, 1)) } ELSE {}
        [] rtype = "SRV" ->
             IF n >= 4 THEN { WithoutTrailingDots(NthToken(v, 4)) } ELSE {}
        [] rtype = "TXT" ->
             { WithoutTrailingDots(x) :
                 x \in KeyTokens(<<"i", "n", "c", "l", "u", "d", "e", ":">>, v)
                   \cup KeyTokens(<<"r", "e", "d", "i", "r", "e", "c", "t",
                                    "=">>, v) }
        [] rtype = "CAA" ->
             IF /\ n >= 3
                /\ Dots(field) # {}
                /\ ~OccursAt(<<"h", "t", "t", "p">>, field, 1)
             THEN { field } ELSE {}
        [] OTHER -> {}

\* the structural parent of d, as a set of at most one string
ExpectedParent(d) == IF LabelCount(d) > 2 THEN { AfterFirstDot(d) } ELSE {}

\* extract_domains_from_records has returned
Extracted == pc = "extracted"

\* the record set of the scenario: one MX value and one SPF TXT value
ScenarioRecords == [t \in {"MX", "TXT"} |->
                      IF t = "MX" THEN << T_mx >> ELSE << T_spf >>]

(***************************************************************************)
(* C11: extract_domains_from_records on {MX: ["10 mail.example.com"],      *)
(* TXT: ["v=spf1 include:spf.example.net redirect=foo.example.org"]} for   *)
(* "example.com" returns exactly mail.example.com, spf.example.net and     *)
(* foo.example.org; in general the result is the union, over the record    *)
(* types present, of the targets of their values (MX second token, SOA     *)
(* first token, SRV fourth token, every include:/redirect= token of a TXT  *)
(* value, CNAME/NS/PTR values, the CAA domain field) plus the structural   *)
(* parent of the domain when it exists; a value with too few tokens        *)
(* contributes nothing.                                                    *)
(***************************************************************************)
C11_ExtractIsUnionOfTargets ==
  Extracted =>
    /\ fn_ret =
         UNION { UNION { ExpectedTargets(t, v) :
                           v \in Range(fn_arg.records[t]) } :
                   t \in DOMAIN fn_arg.records }
           \cup ExpectedParent(fn_arg.domain)
    /\ fn_arg = [records |-> ScenarioRecords, domain |-> S_example_com]
         => fn_ret = { S_mail_example_com, S_spf_example_net,
                       S_foo_example_org }

\* the scenario's record set was extracted for "example.com"
C11_Witness ==
  /\ Extracted
  /\ fn_arg = [records |-> ScenarioRecords, domain |-> S_example_com]
  /\ Cardinality(fn_ret) = 3

(***************************************************************************)
(* C12: every string of the set extract_domains_from_records returns, for  *)
(* any record set and any current domain, one ending with a dot included,  *)
(* has no trailing dot; so has the structural parent added to the result.  *)
(***************************************************************************)
C12_NoTrailingDot ==
  Extracted => \A s \in fn_ret : s = << >> \/ s[Len(s)] # "."

(***************************************************************************)
(* Vocabulary of the properties of the exported graph.                     *)
(***************************************************************************)
\* the run has returned and wrote a DOT file
Exported == pc = "returned" /\ dot_file.written

\* how many elements of the sequence q satisfy being equal to x
Occurrences(q, x) == Cardinality({ i \in 1..Len(q) : q[i] = x })

\* the (source, target) pairs of the edge statements of the DOT file
DotPairs ==
  [i \in 1..Len(dot_file.edges) |->
     << dot_file.edges[i].source, dot_file.edges[i].target >>]

\* the names of the node statements of the DOT file
DotNames == [i \in 1..Len(dot_file.nodes) |-> dot_file.nodes[i].name]

(***************************************************************************)
(* C13: the DOT export of a finished run holds exactly one edge statement  *)
(* per edge stored in the edge list of the run, so that two stored edges   *)
(* between the same ordered pair give two edge statements, and exactly one *)
(* node statement per visited domain.                                      *)
(***************************************************************************)
C13_DotStatementPerStoredEdge ==
  Exported =>
    /\ \A e \in Range(graph_edges) \cup Range(DotPairs) :
         Occurrences(DotPairs, << EscapeQuotes(e[1]), EscapeQuotes(e[2]) >>)
           = Occurrences(graph_edges, e)
    /\ \A d \in all_resolved \cup Range(DotNames) :
         Occurrences(DotNames, EscapeQuotes(d))
           = (IF d \in all_resolved THEN 1 ELSE 0)

(***************************************************************************)
(* resolve_layer evaluated on its own: one layer step on a set of domains, *)
(* the domains being processed in any order and the resolver giving each   *)
(* domain the answer chosen for it when the step starts.                   *)
(***************************************************************************)
LayerDomains ==
  { S_a_b_example_com, S_b_example_com, S_example_com, S_mail_example_com }

InitLayer ==
  /\ pc = "resolve_layer"
  /\ mode = "layer"
  /\ printed_invalid = FALSE
  /\ \E doms \in SUBSET LayerDomains \ { {} } :
       \E extra \in SUBSET (LayerDomains \ doms) :
         \E answers \in [doms -> ResolverOutcomes] :
           /\ fn_arg = [domains |-> doms, resolved |-> doms \cup extra,
                        answers |-> answers]
           /\ current_domains = doms
           /\ to_resolve = doms
           /\ todo = Sorted(doms)
           /\ all_resolved = doms \cup extra
  /\ domain = None
  /\ max_layers = MaxLayersArg
  /\ layer = 1
  /\ graph_edges = << >>
  /\ domain_layers = EmptyDict
  /\ next_domains = {}
  /\ reported = << >>
  /\ resolve_log = << >>
  /\ visited_at = << >>
  /\ G = NoGraph
  /\ export = FALSE
  /\ dot_file = NoDot
  /\ fn_ret = None

\* the body of the loop of resolve_layer for any of the domains left
ProcessInAnyOrder ==
  \E i \in 1..Len(todo) : ProcessAt(i, { fn_arg.answers[todo[i]] })

NextLayer ==
  \/ ProcessInAnyOrder
  \/ LayerReturn

SpecLayer == InitLayer /\ [][NextLayer]_vars

(***************************************************************************)
(* Vocabulary of the properties of one layer step.                         *)
(***************************************************************************)
\* the layer step evaluated on its own has returned
LayerStepDone == mode = "layer" /\ pc = "loop"

\* what the step's answer for d names, structural parent included
StepFound(d) ==
  extract_domains_from_records(resolve_all_records(fn_arg.answers[d]), d)

\* the targets of d that are neither visited nor in the layer
StepNew(d) == (StepFound(d) \ fn_arg.resolved) \ fn_arg.domains

\* how many edges from d to t the step appends
StepEdgeCount(d, t) ==
  (IF t \in StepNew(d) THEN 1 ELSE 0)
    + (IF t \in (ExpectedParent(d) \ fn_arg.resolved) \ fn_arg.domains
       THEN 1 ELSE 0)

(***************************************************************************)
(* C14: the outcome of one layer step does not depend on the order in      *)
(* which the domains of to_resolve are processed: the next frontier, the   *)
(* visited set, the layer map and the multiset of the appended edges are   *)
(* those the domains, the visited set and the answers determine, whatever  *)
(* the order.                                                              *)
(***************************************************************************)
C14_LayerStepOrderIndependent ==
  LayerStepDone =>
    /\ current_domains = UNION { StepNew(d) : d \in fn_arg.domains }
    /\ all_resolved = fn_arg.resolved
    /\ DOMAIN domain_layers.val = fn_arg.domains
    /\ \A d \in fn_arg.domains : domain_layers.val[d] = layer
    /\ \A e \in Range(graph_edges) : e[1] \in fn_arg.domains
    /\ \A d \in fn_arg.domains :
         \A t \in StepNew(d) \cup { e[2] : e \in Range(graph_edges) } :
           Occurrences(graph_edges, << d, t >>) = StepEdgeCount(d, t)

\* a step on several domains was made in another order than the sorted one
\* and appended edges
C14_Witness ==
  /\ LayerStepDone
  /\ Cardinality(fn_arg.domains) >= 2
  /\ domain_layers.keys # Sorted(fn_arg.domains)
  /\ Len(graph_edges) >= 2

(***************************************************************************)
(* hierarchical_layout evaluated on its own, on graphs of a few nodes      *)
(* given with the order in which the nodes were added.                     *)
(***************************************************************************)
\* the highest layer of a node of the inputs
MaxNodeLayer == 2
\* the most edges a graph of the inputs has
MaxEdges == 2

LayoutNodes == { S_a_b_example_com, S_b_example_com, S_example_com }

\* the graph whose nodes were added in the order keys with the layers given
\* and then the edges of the set E
LayoutGraph(keys, layers, E) ==
  draw_dns_graph(CHOOSE q \in Orders(E) : TRUE,
                 [keys |-> keys, val |-> layers])

InitLayout ==
  /\ pc = "call_layout"
  /\ mode = "none"
  /\ printed_invalid = FALSE
  /\ NoRun
  /\ \E N \in SUBSET LayoutNodes \ { {} } :
       \E keys \in Orders(N), layers \in [N -> 1..MaxNodeLayer],
          E \in { F \in SUBSET { e \in N \X N : e[1] # e[2] } :
                    Cardinality(F) <= MaxEdges } :
         fn_arg = [keys |-> keys, layers |-> layers, edges |-> E]
  /\ fn_ret = None

CallLayout ==
  /\ pc = "call_layout"
  /\ fn_ret' = hierarchical_layout(
                 LayoutGraph(fn_arg.keys, fn_arg.layers, fn_arg.edges))
  /\ pc' = "laid_out"
  /\ UNCHANGED << mode, printed_invalid, runVars, fn_arg >>

NextLayout == CallLayout

SpecLayout == InitLayout /\ [][NextLayout]_vars

\* hierarchical_layout has returned
LaidOut == pc = "laid_out"

\* the sources of the edges into n of the graph laid out; two nodes of a
\* layer with the same sources have the same target y
EdgeSources(n) == { e[1] : e \in { f \in fn_arg.edges : f[2] = n } }

C16_FrontierDisjointFromVisited ==
  /\ pc = "loop" => current_domains \cap all_resolved = {}
  /\ pc = "resolve_layer" =>
       /\ to_resolve = current_domains
       /\ next_domains \cap (all_resolved \cup to_resolve) = {}

\* a layer step is about to start on a non-empty frontier, after a step in
\* which a domain named a visited domain
C16_Witness ==
  /\ pc = "loop"
  /\ layer >= 1
  /\ current_domains # {}
  /\ \E i \in 1..Len(resolve_log) :
       extract_domains_from_records(resolve_log[i].records,
                                    resolve_log[i].domain)
         \cap all_resolved # {}

(***************************************************************************)
(* C17: when a run has terminated, by reaching max_layers or by an empty   *)
(* frontier, every domain that is the target of an edge of the returned    *)
(* edge list is in the returned visited set and has an entry in the layer  *)
(* map, so that the graph, the layout and the DOT output hold no node      *)
(* without a discovery layer.                                              *)
(***************************************************************************)
C17_EdgeTargetsVisited ==
  pc = "returned" =>
    /\ \A e \in Range(graph_edges) : e[2] \in all_resolved /\ HasLayer(e[2])
    /\ G.built => Range(G.nodes) \subseteq DOMAIN G.layer

\* the nodes of the graph that have no 'layer' attribute
Unlayered == Range(G.nodes) \ DOMAIN G.layer

\* C17 amended: when a run has terminated, the target of an edge of the
\* returned edge list is in the visited set and in the layer map, or it is in
\* the frontier that the run left unexplored, which is empty unless the run
\* stopped at max_layers; the nodes of the graph without a discovery layer
\* are exactly that frontier, and the layout and the DOT output treat them as
\* nodes of layer 1.
C17_EdgeTargetsVisitedOrLeftOver ==
  pc = "returned" =>
    /\ \A e \in Range(graph_edges) :
         \/ e[2] \in all_resolved /\ HasLayer(e[2])
         \/ /\ e[2] \in current_domains
            /\ e[2] \notin all_resolved
            /\ ~HasLayer(e[2])
    /\ current_domains # {} => reported = << >> /\ layer >= max_layers
    /\ G.built =>
         /\ Unlayered = current_domains
         /\ \A n \in Unlayered : hierarchical_layout(G)[n].x = x_spacing
         /\ dot_file.written =>
              \A i \in 1..Len(dot_file.nodes) :
                dot_file.nodes[i].name \in
                    { EscapeQuotes(n) : n \in Unlayered }
                  => dot_file.nodes[i].fillcolor = LayerColor(1)

\* a run stopped at max_layers returned and exported a graph with a node
\* that was never visited
C17_Witness ==
  /\ pc = "returned"
  /\ dot_file.written
  /\ Unlayered # {}
  /\ \E e \in Range(graph_edges) : e[2] \in Unlayered

(***************************************************************************)
(* C18: in the edge list a run returns, each ordered pair (source, target) *)
(* occurs at most once; processing a domain whose structural parent is     *)
(* newly discovered appends the edge (domain, parent) exactly once.        *)
(***************************************************************************)
C18_EachEdgeOnce ==
  pc = "returned" =>
    \A e \in Range(graph_edges) : Occurrences(graph_edges, e) = 1

\* C18 amended: in the edge list of a run an ordered pair (source, target)
\* occurs twice when the target is the structural parent of the source and
\* once otherwise: a newly discovered parent gets the edge (domain, parent)
\* from the parent check and again as one of the extracted targets.
C18_ParentEdgeTwiceOthersOnce ==
  InRun =>
    \A e \in Range(graph_edges) :
      Occurrences(graph_edges, e) =
        (IF e[2] \in ExpectedParent(e[1]) THEN 2 ELSE 1)

\* a run returned an edge to a parent and an edge to a domain that is not
\* the parent of its source
C18_Witness ==
  /\ pc = "returned"
  /\ \E e \in Range(graph_edges) : e[2] \in ExpectedParent(e[1])
  /\ \E e \in Range(graph_edges) : e[2] \notin ExpectedParent(e[1])

(***************************************************************************)
(* C19: after every completed layer step the start domain is the only      *)
(* domain of layer 1, the layers in use are exactly 1..k for some          *)
(* k <= max_layers, and every visited domain of a layer L > 1 is the       *)
(* target of an edge whose source is a visited domain of layer L - 1.      *)
(***************************************************************************)
C19_LayersFormChain ==
  (BetweenLayers /\ CompletedLayers >= 1) =>
    /\ AtLayer(1) = { domain }
    /\ { LayerOf(d) : d \in DOMAIN domain_layers.val } = 1..CompletedLayers
    /\ CompletedLayers <= max_layers
    /\ \A d \in all_resolved :
         /\ HasLayer(d)
         /\ LayerOf(d) > 1 =>
              \E e \in Range(graph_edges) :
                /\ e[2] = d
                /\ e[1] \in all_resolved
                /\ HasLayer(e[1])
                /\ LayerOf(e[1]) = LayerOf(d) - 1

\* three layer steps are completed, the third on a domain
C19_Witness ==
  /\ pc = "loop"
  /\ layer >= 3
  /\ AtLayer(3) # {}

====
